---- MODULE Spec2Model ----
(***************************************************************************)
(* The multi-provider AI layer of the note application: the three provider *)
(* clients (HuggingFaceService, OpenAIService, GoogleAIService), the       *)
(* three-provider UnifiedAIService of server/ai/index.ts and the           *)
(* Google/HuggingFace UnifiedAIService of server/ai/aiService.ts.          *)
(*                                                                         *)
(* Strings are TLA+ strings handled with Len, SubSeq and \o.  Relevance    *)
(* scores of the heuristic path are kept in tenths (0.8 is 8): every sum   *)
(* the code can form from 0.8, 0.4, 0.6, 0.3 and k*0.4, capped at 1.0, is  *)
(* one IEEE double per tenth, so order and thresholds are the same.        *)
(* Classifier confidences are kept in hundredths (0.1 is 10).              *)
(***************************************************************************)
EXTENDS Integers, Sequences, FiniteSets, TLC

VARIABLES
    apiKey,           \* provider -> whether its credential is in the environment
    hfModel,          \* HF_MODEL_CLASSIFICATION
    provider,         \* index.ts UnifiedAIService.provider
    defaultProvider,  \* aiService.ts UnifiedAIService.defaultProvider
    call,             \* the unified-service call in flight (or the last one)
    trace,            \* the provider-client invocations the call has awaited
    result            \* what the call gave its caller

vars == <<apiKey, hfModel, provider, defaultProvider, call, trace, result>>

----------------------------------------------------------------------------
(* Strings *)

Char(s, i) == SubSeq(s, i, i)

UpperCase == "ABCDEFGHIJKLMNOPQRSTUVWXYZ"

LowerCase == "abcdefghijklmnopqrstuvwxyz"

Digits == "0123456789"

CharsOf(alphabet) == { Char(alphabet, i) : i \in 1..Len(alphabet) }

UpperChars == CharsOf(UpperCase)

LetterChars == CharsOf(UpperCase) \cup CharsOf(LowerCase)

\* \w of a JavaScript regular expression
WordChars == LetterChars \cup CharsOf(Digits) \cup {"_"}

IsLetter(c) == c \in LetterChars

IsWordChar(c) == c \in WordChars

LowerOf == [c \in UpperChars |-> Char(LowerCase, CHOOSE i \in 1..26 : Char(UpperCase, i) = c)]

\* \s, for the characters the model's strings hold
IsSpace(c) == c \in {" ", "\t", "\n"}

LowerChar(c) == IF c \in UpperChars THEN LowerOf[c] ELSE c

RECURSIVE toLowerCase(_)
toLowerCase(s) ==
    IF s = "" THEN ""
    ELSE LowerChar(Char(s, 1)) \o toLowerCase(SubSeq(s, 2, Len(s)))

\* String.prototype.includes
includes(s, sub) ==
    \E i \in 0..(Len(s) - Len(sub)) : SubSeq(s, i + 1, i + Len(sub)) = sub

\* String.prototype.startsWith
startsWith(s, prefix) ==
    Len(prefix) <= Len(s) /\ SubSeq(s, 1, Len(prefix)) = prefix

\* String.prototype.substring(0, n)
substring0(s, n) == SubSeq(s, 1, IF n < Len(s) THEN n ELSE Len(s))

RECURSIVE trimStart(_)
trimStart(s) ==
    IF s # "" /\ IsSpace(Char(s, 1)) THEN trimStart(SubSeq(s, 2, Len(s))) ELSE s

RECURSIVE trimEnd(_)
trimEnd(s) ==
    IF s # "" /\ IsSpace(Char(s, Len(s))) THEN trimEnd(SubSeq(s, 1, Len(s) - 1)) ELSE s

\* String.prototype.trim
trim(s) == trimEnd(trimStart(s))

\* split at every single separator character: "a  b" gives "a", "", "b"
RECURSIVE SplitAt(_, _, _)
SplitAt(s, seps, cur) ==
    IF s = "" THEN <<cur>>
    ELSE IF Char(s, 1) \in seps
         THEN <<cur>> \o SplitAt(SubSeq(s, 2, Len(s)), seps, "")
         ELSE SplitAt(SubSeq(s, 2, Len(s)), seps, cur \o Char(s, 1))

\* String.prototype.split(sep) for a one-character separator
split(s, sep) == SplitAt(s, {sep}, "")

\* drops the empty pieces that lie between two adjacent separators
RECURSIVE DropInnerEmpty(_, _)
DropInnerEmpty(raw, i) ==
    IF i > Len(raw) THEN <<>>
    ELSE (IF raw[i] # "" \/ i = 1 \/ i = Len(raw) THEN <<raw[i]>> ELSE <<>>)
         \o DropInnerEmpty(raw, i + 1)

\* String.prototype.split(/[seps]+/): a run of separators is one separator
splitRuns(s, seps) == DropInnerEmpty(SplitAt(s, seps, ""), 1)

\* the characters of s that are not \w, for split(/\W+/)
NonWordChars(s) == { Char(s, i) : i \in { j \in 1..Len(s) : ~IsWordChar(Char(s, j)) } }

\* Array.prototype.filter
filter(seq, Keep(_)) == SelectSeq(seq, Keep)

\* Array.prototype.slice(0, n)
slice0(seq, n) == SubSeq(seq, 1, IF n < Len(seq) THEN n ELSE Len(seq))

\* Array.prototype.includes
arrayIncludes(seq, x) == \E i \in 1..Len(seq) : seq[i] = x

\* Array.prototype.sort((a, b) => b.score - a.score): stable, descending
RECURSIVE InsertByScore(_, _)
InsertByScore(sorted, e) ==
    IF sorted = <<>> THEN <<e>>
    ELSE IF Head(sorted).score >= e.score
         THEN <<Head(sorted)>> \o InsertByScore(Tail(sorted), e)
         ELSE <<e>> \o sorted

RECURSIVE sortByScoreDesc(_)
sortByScoreDesc(seq) ==
    IF seq = <<>> THEN <<>>
    ELSE InsertByScore(sortByScoreDesc(SubSeq(seq, 1, Len(seq) - 1)), seq[Len(seq)])

----------------------------------------------------------------------------
(* What an awaited function gives: a value or a thrown error.  net counts   *)
(* the transport calls it made, failed says that it took an error path      *)
(* (a missing credential or a failed remote call).                          *)

Value(v, net, failed) == [kind |-> "value", val |-> v, net |-> net, failed |-> failed]

Throw(msg, net) == [kind |-> "throw", val |-> msg, net |-> net, failed |-> TRUE]

\* an optional field that is not set (undefined)
Absent == "<absent>"

\* error instanceof Error ? error.message : 'Unknown error', for a failed remote call
RemoteError == "Request failed"

Providers == {"huggingface", "openai", "google"}

----------------------------------------------------------------------------
(* HuggingFaceService, server/ai/huggingface.ts *)

HF_KeyError == "HUGGINGFACE_API_KEY not configured"

\* testConnection without its catch block: the remote failure escapes
HF_testConnection_uncaught(rsp) ==
    IF ~apiKey["huggingface"]
    THEN Value([connected |-> FALSE, apiKeyConfigured |-> FALSE, error |-> HF_KeyError], 0, TRUE)
    ELSE IF rsp.ok
         THEN Value([connected |-> TRUE, apiKeyConfigured |-> TRUE, error |-> Absent], 1, FALSE)
         ELSE Throw(RemoteError, 1)

HF_testConnection(rsp) ==
    IF ~apiKey["huggingface"]
    THEN Value([connected |-> FALSE, apiKeyConfigured |-> FALSE, error |-> HF_KeyError], 0, TRUE)
    ELSE IF rsp.ok
         THEN Value([connected |-> TRUE, apiKeyConfigured |-> TRUE, error |-> Absent], 1, FALSE)
         ELSE Value([connected |-> FALSE, apiKeyConfigured |-> apiKey["huggingface"],
                     error |-> RemoteError], 1, TRUE)

\* rsp.labels and rsp.scores are the arrays of the zero-shot response
HF_classifyText(text, candidateLabels, rsp) ==
    IF ~apiKey["huggingface"]
    THEN Throw("Text classification failed: " \o HF_KeyError, 0)
    ELSE IF ~rsp.ok
         THEN Throw("Text classification failed: " \o RemoteError, 1)
         ELSE Value([i \in 1..Len(rsp.labels) |->
                        [label |-> rsp.labels[i],
                         score |-> IF i <= Len(rsp.scores) THEN rsp.scores[i] ELSE 0]],
                    1, FALSE)

\* keys an empty object literal inherits: contextMappings[key] is then no array
ObjectPrototypeKeys == {"constructor", "__proto__"}

contextMappings ==
    [food     |-> <<"eat", "cook", "meal", "dinner", "lunch", "breakfast", "recipe", "ingredient">>,
     shopping |-> <<"buy", "purchase", "store", "market", "get", "need">>,
     work     |-> <<"meeting", "project", "deadline", "office", "email", "task">>,
     health   |-> <<"doctor", "medicine", "exercise", "gym", "hospital">>,
     travel   |-> <<"trip", "vacation", "flight", "hotel", "visit">>,
     home     |-> <<"house", "clean", "repair", "garden", "room">>,
     finance  |-> <<"money", "pay", "bill", "bank", "budget", "cost">>]

\* whether getContextMatches throws (keywords.filter is not a function)
getContextMatchesThrows(tag) == toLowerCase(tag) \in ObjectPrototypeKeys

\* counts every keyword of the tag, found in the content or not
getContextMatches_unmatched(content, tag) ==
    LET tagKey == toLowerCase(tag)
    IN  IF tagKey \in DOMAIN contextMappings THEN Len(contextMappings[tagKey]) ELSE 0

getContextMatches(content, tag) ==
    LET tagKey == toLowerCase(tag)
        keywords == IF tagKey \in DOMAIN contextMappings THEN contextMappings[tagKey] ELSE <<>>
    IN  Len(SelectSeq(keywords, LAMBDA keyword : includes(content, keyword)))

\* the words of s longer than 2: s.split(/\W+/).filter(word => word.length > 2)
LongWords(s) == SelectSeq(splitRuns(s, NonWordChars(s)), LAMBDA word : Len(word) > 2)

WordPairScore(contentWord, tagWord) ==
    IF contentWord = tagWord THEN 6
    ELSE IF \/ startsWith(contentWord, substring0(tagWord, 3))
            \/ startsWith(tagWord, substring0(contentWord, 3))
         THEN 3
         ELSE 0

RECURSIVE SumPairs(_, _, _, _)
SumPairs(contentWords, tagWords, i, j) ==
    IF i > Len(contentWords) THEN 0
    ELSE IF j > Len(tagWords) THEN SumPairs(contentWords, tagWords, i + 1, 1)
         ELSE WordPairScore(contentWords[i], tagWords[j])
              + SumPairs(contentWords, tagWords, i, j + 1)

\* score in tenths; defined when getContextMatches does not throw
calculateTagRelevance(content, tag) ==
    LET contentLower == toLowerCase(content)
        tagLower == toLowerCase(tag)
        words == split(contentLower, " ")
        direct == IF includes(contentLower, tagLower) THEN 8 ELSE 0
        partial == IF \/ includes(tagLower, words[1])
                      \/ \E k \in 1..Len(words) : includes(words[k], tagLower)
                   THEN 4 ELSE 0
        semantic == SumPairs(LongWords(contentLower), LongWords(tagLower), 1, 1)
        context == getContextMatches(contentLower, tagLower) * 4
        score == direct + partial + semantic + context
    IN  IF score < 10 THEN score ELSE 10

\* the filter predicate of fallbackKeywordMatching, left to right
FallbackMatches(itemContent, tag) ==
    LET content == toLowerCase(itemContent)
        tagLower == toLowerCase(tag)
    IN  \/ includes(content, tagLower)
        \/ includes(tagLower, split(toLowerCase(content), " ")[1])
        \/ calculateTagRelevance(itemContent, tag) > 3

\* whether the filter predicate reaches a calculateTagRelevance that throws
FallbackThrows(itemContent, tag) ==
    LET content == toLowerCase(itemContent)
        tagLower == toLowerCase(tag)
    IN  /\ ~includes(content, tagLower)
        /\ ~includes(tagLower, split(toLowerCase(content), " ")[1])
        /\ getContextMatchesThrows(tag)

\* a fallback that hands back the head of the vocabulary without filtering it
fallbackKeywordMatching_unfiltered(itemContent, availableTags) == slice0(availableTags, 3)

fallbackKeywordMatching(itemContent, availableTags) ==
    slice0(SelectSeq(availableTags, LAMBDA tag : FallbackMatches(itemContent, tag)), 3)

\* the number of entries tagScores holds when the per-tag loop ends or is
\* left: a score that throws in the try block throws again in the catch block
\* and leaves the loop
tagScoresLength(availableTags) ==
    LET throwsAt == { i \in 1..Len(availableTags) : getContextMatchesThrows(availableTags[i]) }
    IN  IF throwsAt = {} THEN Len(availableTags)
        ELSE (CHOOSE i \in throwsAt : \A j \in throwsAt : i <= j) - 1

\* rsp.perTag[i] says whether the remote classification call for tag i succeeded
suggestTagsWithDistilBERT(itemContent, availableTags, rsp) ==
    LET n == Len(availableTags)
        throwsAt == { i \in 1..n : getContextMatchesThrows(availableTags[i]) }
        \* the loop stops at the first tag whose scoring throws
        calls == IF throwsAt = {} THEN n
                 ELSE CHOOSE i \in throwsAt : \A j \in throwsAt : i <= j
        remoteFailed == \E i \in 1..calls : ~rsp.perTag[i]
        tagScores == [i \in 1..n |->
                        [tag |-> availableTags[i],
                         score |-> calculateTagRelevance(itemContent, availableTags[i])]]
        topTags == slice0(sortByScoreDesc(SelectSeq(tagScores, LAMBDA r : r.score > 2)), 3)
        fallbackThrows == \E i \in 1..n : FallbackThrows(itemContent, availableTags[i])
        fallback(net, failed) ==
            IF fallbackThrows THEN Throw("keywords.filter is not a function", net)
            ELSE Value(fallbackKeywordMatching(itemContent, availableTags), net, failed)
    IN  IF ~apiKey["huggingface"] THEN fallback(0, TRUE)
        ELSE IF throwsAt # {} THEN fallback(calls, TRUE)
        ELSE IF topTags # <<>>
             THEN Value([i \in 1..Len(topTags) |-> topTags[i].tag], calls, remoteFailed)
             ELSE fallback(calls, remoteFailed)

\* a ranking whose order changes from one call to the next
HF_topTags_alternating(classification) ==
    LET top == slice0(sortByScoreDesc(SelectSeq(classification, LAMBDA r : r.score > 10)), 3)
        n == Len(top)
    IN  IF Len(trace) % 2 = 0 THEN [i \in 1..n |-> top[i].label]
        ELSE [i \in 1..n |-> top[n + 1 - i].label]

\* the zero-shot branch of suggestTags: filter > 0.1, sort, slice, map
HF_topTags(classification) ==
    LET top == slice0(sortByScoreDesc(SelectSeq(classification, LAMBDA r : r.score > 10)), 3)
    IN  [i \in 1..Len(top) |-> top[i].label]

HF_suggestTags(itemContent, availableTags, rsp) ==
    LET out == IF hfModel = "distilbert-base-uncased"
               THEN suggestTagsWithDistilBERT(itemContent, availableTags, rsp)
               ELSE LET c == HF_classifyText(itemContent, availableTags, rsp)
                    IN  IF c.kind = "throw" THEN c
                        ELSE Value(HF_topTags(c.val), c.net, FALSE)
    IN  IF out.kind = "throw" THEN Value(<<>>, out.net, TRUE) ELSE out

HF_extractEntities(text, rsp) ==
    IF ~apiKey["huggingface"] THEN Throw("NER extraction failed: " \o HF_KeyError, 0)
    ELSE IF ~rsp.ok THEN Throw("NER extraction failed: " \o RemoteError, 1)
    ELSE Value(<<>>, 1, FALSE)

HasLetter(s) == \E i \in 1..Len(s) : IsLetter(Char(s, i))

\* splits as soon as one sentence qualifies
HF_parseNote_eager(noteText, rsp) ==
    LET entities == HF_extractEntities(noteText, rsp)
        pieces == splitRuns(noteText, {".", "!", "?"})
        trimmed == [i \in 1..Len(pieces) |-> trim(pieces[i])]
        sentences == SelectSeq(SelectSeq(trimmed, LAMBDA t : Len(t) > 10), HasLetter)
    IN  IF entities.kind = "throw" THEN Value(<<trim(noteText)>>, entities.net, TRUE)
        ELSE IF Len(sentences) > 0 THEN Value(sentences, entities.net, FALSE)
        ELSE Value(<<trim(noteText)>>, entities.net, FALSE)

HF_parseNote(noteText, rsp) ==
    LET entities == HF_extractEntities(noteText, rsp)
        pieces == splitRuns(noteText, {".", "!", "?"})
        trimmed == [i \in 1..Len(pieces) |-> trim(pieces[i])]
        sentences == SelectSeq(SelectSeq(trimmed, LAMBDA t : Len(t) > 10), HasLetter)
    IN  IF entities.kind = "throw" THEN Value(<<trim(noteText)>>, entities.net, TRUE)
        ELSE IF Len(sentences) > 1 THEN Value(sentences, entities.net, FALSE)
        ELSE Value(<<trim(noteText)>>, entities.net, FALSE)

\* rsp.text is result.generated_text, possibly Absent
HF_generateText(prompt, rsp) ==
    IF ~apiKey["huggingface"] THEN Throw("Text generation failed: " \o HF_KeyError, 0)
    ELSE IF ~rsp.ok THEN Throw("Text generation failed: " \o RemoteError, 1)
    ELSE Value(IF rsp.text = Absent THEN "" ELSE rsp.text, 1, FALSE)

----------------------------------------------------------------------------
(* GoogleAIService, server/ai/google.ts *)

Google_KeyError == "GOOGLE_API_KEY not configured"

Google_testConnection(rsp) ==
    IF ~apiKey["google"]
    THEN Value([connected |-> FALSE, apiKeyConfigured |-> FALSE, error |-> Google_KeyError], 0, TRUE)
    ELSE IF rsp.ok
         THEN Value([connected |-> TRUE, apiKeyConfigured |-> TRUE, error |-> Absent], 1, FALSE)
         ELSE Value([connected |-> FALSE, apiKeyConfigured |-> apiKey["google"],
                     error |-> RemoteError], 1, TRUE)

\* the same chain without its final slice(0, 3)
Google_parseTags_unsliced(text, availableTags) ==
    LET parts == split(text, ",")
        trimmed == [i \in 1..Len(parts) |-> trim(parts[i])]
        nonEmpty == SelectSeq(trimmed, LAMBDA tag : Len(tag) > 0)
    IN  SelectSeq(nonEmpty, LAMBDA tag : arrayIncludes(availableTags, tag))

\* text.split(',').map(trim).filter(nonempty).filter(in availableTags).slice(0, 3)
Google_parseTags(text, availableTags) ==
    LET parts == split(text, ",")
        trimmed == [i \in 1..Len(parts) |-> trim(parts[i])]
        nonEmpty == SelectSeq(trimmed, LAMBDA tag : Len(tag) > 0)
        known == SelectSeq(nonEmpty, LAMBDA tag : arrayIncludes(availableTags, tag))
    IN  slice0(known, 3)

\* rsp.text is response.text()
Google_suggestTags(itemContent, availableTags, rsp) ==
    IF ~apiKey["google"] THEN Value(<<>>, 0, TRUE)
    ELSE IF ~rsp.ok THEN Value(<<>>, 1, TRUE)
    ELSE Value(Google_parseTags(rsp.text, availableTags), 1, FALSE)

\* the characters of [-*\d\.] (the bullet sign is in no string of the model)
BulletChars == {"-", "*", "."} \cup CharsOf(Digits)

RECURSIVE DropWhile(_, _)
DropWhile(s, chars) ==
    IF s # "" /\ Char(s, 1) \in chars THEN DropWhile(SubSeq(s, 2, Len(s)), chars) ELSE s

\* item.replace(/^[-*\d\.]+\s*/, '')
stripBullet(item) ==
    IF item # "" /\ Char(item, 1) \in BulletChars
    THEN trimStart(DropWhile(item, BulletChars))
    ELSE item

Google_parseItems(text) ==
    LET lines == split(text, "\n")
        trimmed == [i \in 1..Len(lines) |-> trim(lines[i])]
        long == SelectSeq(SelectSeq(trimmed, LAMBDA item : Len(item) > 10), HasLetter)
        stripped == [i \in 1..Len(long) |-> stripBullet(long[i])]
    IN  SelectSeq(stripped, LAMBDA item : Len(item) > 0)

Google_parseNote(noteText, rsp) ==
    IF ~apiKey["google"] THEN Value(<<trim(noteText)>>, 0, TRUE)
    ELSE IF ~rsp.ok THEN Value(<<trim(noteText)>>, 1, TRUE)
    ELSE LET items == Google_parseItems(rsp.text)
         IN  IF Len(items) = 0 THEN Value(<<trim(noteText)>>, 1, FALSE)
             ELSE Value(items, 1, FALSE)

Google_generateText(prompt, rsp) ==
    IF ~apiKey["google"] THEN Throw("Text generation failed: " \o Google_KeyError, 0)
    ELSE IF ~rsp.ok THEN Throw("Text generation failed: " \o RemoteError, 1)
    ELSE Value(trim(rsp.text), 1, FALSE)

----------------------------------------------------------------------------
(* OpenAIService, server/ai/openai.ts.  rsp.content is the message content: *)
(* "missing", "invalid" (no JSON), "other" (JSON the handling of which      *)
(* throws or that is no array) or "array" with rsp.items its elements.      *)

OpenAI_KeyError == "OPENAI_API_KEY not configured"

\* testConnection without the credential check before the remote call
OpenAI_testConnection_unguarded(rsp) ==
    IF rsp.ok
    THEN Value([connected |-> TRUE, apiKeyConfigured |-> TRUE, error |-> Absent], 1, FALSE)
    ELSE Value([connected |-> FALSE, apiKeyConfigured |-> apiKey["openai"],
                error |-> RemoteError], 1, TRUE)

OpenAI_testConnection(rsp) ==
    IF ~apiKey["openai"]
    THEN Value([connected |-> FALSE, apiKeyConfigured |-> FALSE, error |-> OpenAI_KeyError], 0, TRUE)
    ELSE IF rsp.ok
         THEN Value([connected |-> TRUE, apiKeyConfigured |-> TRUE, error |-> Absent], 1, FALSE)
         ELSE Value([connected |-> FALSE, apiKeyConfigured |-> apiKey["openai"],
                     error |-> RemoteError], 1, TRUE)

\* an item of the array is [label, score, isNumber]
OpenAI_classifyText(text, candidateLabels, rsp) ==
    IF ~apiKey["openai"]
    THEN Throw("OpenAI text classification failed: " \o OpenAI_KeyError, 0)
    ELSE IF ~rsp.ok
    THEN Throw("OpenAI text classification failed: " \o RemoteError, 1)
    ELSE IF rsp.content = "missing"
    THEN Throw("OpenAI text classification failed: No response from OpenAI", 1)
    ELSE IF rsp.content # "array"
    THEN Value(<<>>, 1, TRUE)
    ELSE Value(SelectSeq(rsp.items, LAMBDA r : /\ arrayIncludes(candidateLabels, r.label)
                                                /\ r.isNumber
                                                /\ r.score > 0),
               1, FALSE)

OpenAI_topTags(classification) ==
    LET top == slice0(sortByScoreDesc(SelectSeq(classification, LAMBDA r : r.score > 10)), 3)
    IN  [i \in 1..Len(top) |-> top[i].label]

OpenAI_suggestTags(itemContent, availableTags, rsp) ==
    LET c == OpenAI_classifyText(itemContent, availableTags, rsp)
    IN  IF c.kind = "throw" THEN Value(<<>>, c.net, TRUE)
        ELSE Value(OpenAI_topTags(c.val), c.net, c.failed)

\* an item of the array is [isString, s]; no credential check precedes the call
OpenAI_parseNote(noteText, rsp) ==
    IF ~rsp.ok THEN Value(<<trim(noteText)>>, 1, TRUE)
    ELSE IF rsp.content = "missing" THEN Value(<<trim(noteText)>>, 1, FALSE)
    ELSE IF rsp.content = "invalid" THEN Value(<<trim(noteText)>>, 1, TRUE)
    ELSE IF rsp.content = "array" /\ Len(rsp.items) > 0
         THEN LET kept == SelectSeq(rsp.items, LAMBDA item : item.isString /\ Len(trim(item.s)) > 0)
              IN  Value([i \in 1..Len(kept) |-> kept[i].s], 1, FALSE)
         ELSE Value(<<trim(noteText)>>, 1, FALSE)

\* rsp.text is response.choices[0]?.message?.content, possibly Absent
OpenAI_generateText(prompt, rsp) ==
    IF ~apiKey["openai"] THEN Throw("OpenAI text generation failed: " \o OpenAI_KeyError, 0)
    ELSE IF ~rsp.ok THEN Throw("OpenAI text generation failed: " \o RemoteError, 1)
    ELSE Value(IF rsp.text = Absent THEN "" ELSE rsp.text, 1, FALSE)

----------------------------------------------------------------------------
(* UnifiedAIService of server/ai/index.ts: what each operation makes of the *)
(* outcome of the provider-client function it awaits inside its try block.  *)

Index_testConnection(use, current, out) ==
    IF out.kind = "throw"
    THEN Value([connected |-> FALSE, apiKeyConfigured |-> FALSE,
                provider |-> current, error |-> out.val], 0, TRUE)
    ELSE Value([connected |-> out.val.connected, apiKeyConfigured |-> out.val.apiKeyConfigured,
                provider |-> use, error |-> out.val.error], 0, out.failed)

Index_testConnectionWithProvider(use, out) ==
    IF out.kind = "throw"
    THEN Value([connected |-> FALSE, apiKeyConfigured |-> FALSE,
                provider |-> use, error |-> out.val], 0, TRUE)
    ELSE Value([connected |-> out.val.connected, apiKeyConfigured |-> out.val.apiKeyConfigured,
                provider |-> use, error |-> out.val.error], 0, out.failed)

Index_suggestTags(out) ==
    IF out.kind = "throw" THEN Value(<<>>, 0, TRUE) ELSE Value(out.val, 0, out.failed)

Index_suggestTagsWithProvider(use, out) ==
    IF out.kind = "throw"
    THEN Value([tags |-> <<>>, provider |-> use, error |-> out.val], 0, TRUE)
    ELSE Value([tags |-> out.val, provider |-> use, error |-> Absent], 0, out.failed)

Index_parseNote(noteText, out) ==
    IF out.kind = "throw" THEN Value(<<trim(noteText)>>, 0, TRUE)
    ELSE Value(out.val, 0, out.failed)

Index_generateText(out) ==
    IF out.kind = "throw" THEN Value("", 0, TRUE) ELSE Value(out.val, 0, out.failed)

\* the provider-client function an operation of index.ts awaits
Index_clientFn(op) ==
    CASE op \in {"testConnection", "testConnectionWithProvider"} -> "testConnection"
      [] op \in {"suggestTags", "suggestTagsWithProvider"} -> "suggestTags"
      [] op = "parseNote" -> "parseNote"
      [] op = "generateText" -> "generateText"

\* if (p === 'openai') ... else if (p === 'google') ... else huggingface
Index_dispatch(p) ==
    IF p = "openai" THEN "openai" ELSE IF p = "google" THEN "google" ELSE "huggingface"

----------------------------------------------------------------------------
(* UnifiedAIService of server/ai/aiService.ts *)

AIProviders == {"huggingface", "google"}

\* const fallbackProvider = useProvider === 'google' ? 'huggingface' : 'google'
fallbackProvider(useProvider) == IF useProvider = "google" THEN "huggingface" ELSE "google"

\* testProvider: no try block around the awaited testConnection
Registry_testProvider(use, out) ==
    IF out.kind = "throw" THEN out
    ELSE Value([provider |-> use, connected |-> out.val.connected,
                apiKeyConfigured |-> out.val.apiKeyConfigured, error |-> out.val.error],
               0, out.failed)

\* the first function suggestTags / parseNote await for useProvider
Registry_firstTest(useProvider) ==
    IF useProvider = "google" THEN "google" ELSE "huggingface"

\* a fallback that tests HuggingFace again whenever a test reports no connection
Registry_afterTest_retrying(client, status) ==
    IF status.connected THEN "op" ELSE "hf"

\* after the connection test of `client` gave `status`: "op" awaits the client's
\* suggestTags / parseNote, "hf" goes on to the HuggingFace test, "none" returns
\* the no-provider result
Registry_afterTest(client, status) ==
    IF status.connected THEN "op"
    ELSE IF client = "google" THEN "hf"
    ELSE "none"

\* giving up by raising the error instead of returning the default
Registry_noProvider_raising(op, noteText) == Throw("No AI providers available", 0)

\* the result when no provider is connected, or when the fallback also failed
Registry_noProvider(op, noteText) ==
    IF op = "suggestTags" THEN Value(<<>>, 0, TRUE) ELSE Value(<<trim(noteText)>>, 0, TRUE)

----------------------------------------------------------------------------
(* Inputs and remote responses *)

\* most elements a remote response holds
MaxResp == 4

\* most lines / items a note-parsing response holds
MaxItems == 2

\* deepest nesting of the recursive fallback the model follows
MaxDepth == 3

Texts == {"", "ok", "zzz qqq", "Need food for the work trip. Buy shopping bags!"}

\* the (text, vocabulary) pairs tags are asked for
Requests ==
    {<<"", <<"travel", "work", "food", "shopping">>>>,
     <<"ok", <<>>>>,
     <<"ok", <<"constructor", "food">>>>,
     <<"zzz qqq", <<"food">>>>,
     <<"Need food for the work trip. Buy shopping bags!", <<"work", "food">>>>,
     <<"Need food for the work trip. Buy shopping bags!",
       <<"travel", "work", "food", "shopping">>>>}

SeqsUpTo(S, n) == UNION { [1..k -> S] : k \in 0..n }

RECURSIVE join(_, _)
join(parts, sep) ==
    IF Len(parts) = 0 THEN ""
    ELSE IF Len(parts) = 1 THEN parts[1]
    ELSE parts[1] \o sep \o join(Tail(parts), sep)

\* (label, confidence in hundredths) pairs of a classification response: a tag
\* of the vocabularies at two confidences, a label of no vocabulary, and a tag
\* under both thresholds
ClassifiedPool == {<<"food", 90>>, <<"food", 50>>, <<"other", 90>>, <<"work", 5>>}

LabelPool == { c[1] : c \in ClassifiedPool }

PiecePool == {"food", " work ", "", "other"}

LinePool == {"- Buy some milk", "Call the dentist today", "ok", ""}

NoteItemPool ==
    {[isString |-> TRUE, s |-> "Buy some milk"], [isString |-> TRUE, s |-> " "],
     [isString |-> FALSE, s |-> ""]}

GeneratedPool == {Absent, "", " Hello there "}

Failure == [ok |-> FALSE]

ConnectionResponses == {[ok |-> TRUE], Failure}

ZeroShotResponses ==
    {Failure}
    \cup { [ok |-> TRUE, labels |-> [i \in DOMAIN r |-> r[i][1]],
            scores |-> [i \in DOMAIN r |-> r[i][2]]] :
           r \in SeqsUpTo(ClassifiedPool, MaxResp) }
    \cup { [ok |-> TRUE, labels |-> l, scores |-> <<>>] : l \in SeqsUpTo(LabelPool, MaxResp) }

PerTagResponses(availableTags) ==
    { [perTag |-> f] : f \in [1..Len(availableTags) -> BOOLEAN] }

CommaTextResponses ==
    {Failure}
    \cup { [ok |-> TRUE, text |-> join(parts, ",")] :
           parts \in SeqsUpTo(PiecePool, MaxResp) \ {<<>>} }

LineTextResponses ==
    {Failure}
    \cup { [ok |-> TRUE, text |-> join(ls, "\n")] : ls \in SeqsUpTo(LinePool, MaxItems) \ {<<>>} }

ClassificationItems ==
    { [label |-> c[1], score |-> c[2], isNumber |-> TRUE] : c \in ClassifiedPool }
    \cup {[label |-> "food", score |-> 0, isNumber |-> FALSE]}

ChatClassifyResponses ==
    {Failure}
    \cup { [ok |-> TRUE, content |-> c, items |-> <<>>] : c \in {"missing", "invalid", "other"} }
    \cup { [ok |-> TRUE, content |-> "array", items |-> r] :
           r \in SeqsUpTo(ClassificationItems, MaxResp) }

ChatNoteResponses ==
    {Failure}
    \cup { [ok |-> TRUE, content |-> c, items |-> <<>>] : c \in {"missing", "invalid", "other"} }
    \cup { [ok |-> TRUE, content |-> "array", items |-> r] : r \in SeqsUpTo(NoteItemPool, MaxItems) }

GenerationResponses == {Failure} \cup { [ok |-> TRUE, text |-> t] : t \in GeneratedPool }

\* the remote outcomes function fn of a client can meet; without credential
\* the function makes no transport call or makes one the remote end refuses
Responses(client, fn, availableTags) ==
    IF ~apiKey[client] THEN {Failure}
    ELSE CASE fn = "testConnection" -> ConnectionResponses
           [] fn = "generateText" -> GenerationResponses
           [] fn = "suggestTags" /\ client = "huggingface" ->
                IF hfModel = "distilbert-base-uncased"
                THEN PerTagResponses(availableTags) ELSE ZeroShotResponses
           [] fn = "suggestTags" /\ client = "google" -> CommaTextResponses
           [] fn = "suggestTags" /\ client = "openai" -> ChatClassifyResponses
           [] fn = "parseNote" /\ client = "huggingface" -> ConnectionResponses
           [] fn = "parseNote" /\ client = "google" -> LineTextResponses
           [] fn = "parseNote" /\ client = "openai" -> ChatNoteResponses

\* the outcome of function fn of a provider client
ClientCall(client, fn, text, availableTags, rsp) ==
    CASE client = "huggingface" /\ fn = "testConnection" -> HF_testConnection(rsp)
      [] client = "huggingface" /\ fn = "suggestTags" -> HF_suggestTags(text, availableTags, rsp)
      [] client = "huggingface" /\ fn = "parseNote" -> HF_parseNote(text, rsp)
      [] client = "huggingface" /\ fn = "generateText" -> HF_generateText(text, rsp)
      [] client = "google" /\ fn = "testConnection" -> Google_testConnection(rsp)
      [] client = "google" /\ fn = "suggestTags" -> Google_suggestTags(text, availableTags, rsp)
      [] client = "google" /\ fn = "parseNote" -> Google_parseNote(text, rsp)
      [] client = "google" /\ fn = "generateText" -> Google_generateText(text, rsp)
      [] client = "openai" /\ fn = "testConnection" -> OpenAI_testConnection(rsp)
      [] client = "openai" /\ fn = "suggestTags" -> OpenAI_suggestTags(text, availableTags, rsp)
      [] client = "openai" /\ fn = "parseNote" -> OpenAI_parseNote(text, rsp)
      [] client = "openai" /\ fn = "generateText" -> OpenAI_generateText(text, rsp)

\* the record the trace keeps of an awaited client function
Entry(client, fn, out) ==
    [client |-> client, fn |-> fn, kind |-> out.kind, val |-> out.val,
     net |-> out.net, failed |-> out.failed]

----------------------------------------------------------------------------
(* The state machine *)

NoCall == [svc |-> "none", op |-> "none", use |-> "none", text |-> "", vocab |-> <<>>,
           pc |-> "idle", client |-> "none", fn |-> "none", depth |-> 0]

NoResult == [kind |-> "none"]

ClassificationModels == {"distilbert-base-uncased", "facebook/bart-large-mnli"}

Init ==
    /\ apiKey \in [Providers -> BOOLEAN]
    /\ hfModel \in ClassificationModels
    /\ provider \in Providers
    /\ defaultProvider = "google"
    /\ call = NoCall
    /\ trace = <<>>
    /\ result = NoResult

Idle == call.pc = "idle"

IndexOps == {"testConnection", "testConnectionWithProvider", "suggestTags",
             "suggestTagsWithProvider", "parseNote", "generateText"}

\* the (text, vocabulary) pairs an operation is called with
RequestsOf(op) ==
    IF op \in {"suggestTags", "suggestTagsWithProvider"} THEN Requests
    ELSE IF op = "parseNote" THEN { <<t, <<>>>> : t \in Texts }
    ELSE {<<"", <<>>>>}

\* the provider arguments an operation of index.ts is called with
IndexArgsOf(op) ==
    IF op \in {"testConnectionWithProvider", "suggestTagsWithProvider"}
    THEN Providers ELSE {Absent}

\* an operation of index.ts is called: it reads the selector (or its provider
\* argument) and awaits the client function
IndexStart(op, arg, text, vocab) ==
    /\ Idle
    /\ LET use == IF arg = Absent THEN provider ELSE arg
       IN  call' = [svc |-> "index", op |-> op, use |-> use, text |-> text, vocab |-> vocab,
                    pc |-> "await", client |-> Index_dispatch(use),
                    fn |-> Index_clientFn(op), depth |-> 0]
    /\ trace' = <<>>
    /\ result' = NoResult
    /\ UNCHANGED <<apiKey, hfModel, provider, defaultProvider>>

\* what the operation of index.ts returns once the awaited function gave out
Index_return(c, current, out) ==
    CASE c.op = "testConnection" -> Index_testConnection(c.use, current, out)
      [] c.op = "testConnectionWithProvider" -> Index_testConnectionWithProvider(c.use, out)
      [] c.op = "suggestTags" -> Index_suggestTags(out)
      [] c.op = "suggestTagsWithProvider" -> Index_suggestTagsWithProvider(c.use, out)
      [] c.op = "parseNote" -> Index_parseNote(c.text, out)
      [] c.op = "generateText" -> Index_generateText(out)

\* an operation that picks its provider client again when the await settles
IndexReturn_rereading ==
    /\ call.svc = "index" /\ call.pc = "await"
    /\ \E out \in { ClientCall(Index_dispatch(provider), call.fn, call.text, call.vocab, rsp) :
                       rsp \in Responses(Index_dispatch(provider), call.fn, call.vocab) } :
             /\ trace' = Append(trace, Entry(Index_dispatch(provider), call.fn, out))
             /\ result' = Index_return(call, provider, out)
    /\ call' = [call EXCEPT !.pc = "done"]
    /\ UNCHANGED <<apiKey, hfModel, provider, defaultProvider>>

\* the awaited client function settles and the operation of index.ts returns
IndexReturn ==
    /\ call.svc = "index" /\ call.pc = "await"
    /\ \E out \in { ClientCall(call.client, call.fn, call.text, call.vocab, rsp) :
                       rsp \in Responses(call.client, call.fn, call.vocab) } :
             /\ trace' = Append(trace, Entry(call.client, call.fn, out))
             /\ result' = Index_return(call, provider, out)
    /\ call' = [call EXCEPT !.pc = "done"]
    /\ UNCHANGED <<apiKey, hfModel, provider, defaultProvider>>

\* getProvider of index.ts
getProvider == provider

\* a setProvider that refuses a provider without credential
SetProvider_validating(p) ==
    /\ apiKey[p]
    /\ provider' = p
    /\ UNCHANGED <<apiKey, hfModel, defaultProvider, call, trace, result>>

\* setProvider of index.ts
SetProvider(p) ==
    /\ provider' = p
    /\ UNCHANGED <<apiKey, hfModel, defaultProvider, call, trace, result>>

RegistryOps == {"testProvider", "suggestTags", "parseNote"}

\* the provider arguments an operation of aiService.ts is called with
RegistryArgsOf(op) == IF op = "testProvider" THEN AIProviders ELSE AIProviders \cup {Absent}

\* an operation of aiService.ts is called; arg is its provider argument or Absent
RegistryStart(op, arg, text, vocab) ==
    /\ Idle
    /\ LET use == IF arg = Absent THEN defaultProvider ELSE arg
       IN  call' = [svc |-> "registry", op |-> op, use |-> use, text |-> text, vocab |-> vocab,
                    pc |-> "await",
                    client |-> IF op = "testProvider"
                               THEN (IF use = "huggingface" THEN "huggingface" ELSE "google")
                               ELSE Registry_firstTest(use),
                    fn |-> "testConnection", depth |-> 0]
    /\ trace' = <<>>
    /\ result' = NoResult
    /\ UNCHANGED <<apiKey, hfModel, provider, defaultProvider>>

\* the catch block of suggestTags / parseNote: the same operation is called
\* again with the fallback provider, and its result is the result
Registry_catch(c) ==
    IF c.depth < MaxDepth
    THEN [c EXCEPT !.use = fallbackProvider(c.use),
                   !.client = Registry_firstTest(fallbackProvider(c.use)),
                   !.fn = "testConnection", !.depth = c.depth + 1]
    ELSE [c EXCEPT !.pc = "overflow"]

\* testProvider: the awaited testConnection settles
RegistryProbeReturn ==
    /\ call.svc = "registry" /\ call.pc = "await" /\ call.op = "testProvider"
    /\ \E out \in { ClientCall(call.client, call.fn, call.text, call.vocab, rsp) :
                       rsp \in Responses(call.client, call.fn, call.vocab) } :
             /\ trace' = Append(trace, Entry(call.client, call.fn, out))
             /\ result' = Registry_testProvider(call.use, out)
    /\ call' = [call EXCEPT !.pc = "done"]
    /\ UNCHANGED <<apiKey, hfModel, provider, defaultProvider>>

\* where suggestTags / parseNote stand once the awaited testConnection gave out
Registry_testSettled(c, out) ==
    IF out.kind = "throw" THEN Registry_catch(c)
    ELSE CASE Registry_afterTest(c.client, out.val) = "op" -> [c EXCEPT !.fn = c.op]
           [] Registry_afterTest(c.client, out.val) = "hf" -> [c EXCEPT !.client = "huggingface"]
           [] Registry_afterTest(c.client, out.val) = "none" -> [c EXCEPT !.pc = "done"]

\* suggestTags / parseNote: the awaited testConnection settles
RegistryTestReturn ==
    /\ call.svc = "registry" /\ call.pc = "await" /\ call.op # "testProvider"
    /\ call.fn = "testConnection"
    /\ \E out \in { ClientCall(call.client, call.fn, call.text, call.vocab, rsp) :
                       rsp \in Responses(call.client, call.fn, call.vocab) } :
             /\ trace' = Append(trace, Entry(call.client, call.fn, out))
             /\ call' = Registry_testSettled(call, out)
             /\ result' = IF call'.pc = "done" THEN Registry_noProvider(call.op, call.text)
                          ELSE result
    /\ UNCHANGED <<apiKey, hfModel, provider, defaultProvider>>

\* where suggestTags / parseNote stand once the client's suggestTags / parseNote gave out
Registry_opSettled(c, out) ==
    IF out.kind = "throw" THEN Registry_catch(c) ELSE [c EXCEPT !.pc = "done"]

\* suggestTags / parseNote: the awaited suggestTags / parseNote of the client settles
RegistryOpReturn ==
    /\ call.svc = "registry" /\ call.pc = "await" /\ call.op # "testProvider"
    /\ call.fn # "testConnection"
    /\ \E out \in { ClientCall(call.client, call.fn, call.text, call.vocab, rsp) :
                       rsp \in Responses(call.client, call.fn, call.vocab) } :
             /\ trace' = Append(trace, Entry(call.client, call.fn, out))
             /\ call' = Registry_opSettled(call, out)
             /\ result' = IF call'.pc = "done" THEN Value(out.val, 0, out.failed) ELSE result
    /\ UNCHANGED <<apiKey, hfModel, provider, defaultProvider>>

\* the caller's await resumes with the result and the call is over
CallerResumes ==
    /\ call.pc = "done"
    /\ call' = NoCall
    /\ trace' = <<>>
    /\ result' = NoResult
    /\ UNCHANGED <<apiKey, hfModel, provider, defaultProvider>>

\* getDefaultProvider of aiService.ts
getDefaultProvider == defaultProvider

\* setDefaultProvider of aiService.ts
SetDefaultProvider(p) ==
    /\ defaultProvider' = p
    /\ UNCHANGED <<apiKey, hfModel, provider, call, trace, result>>

----------------------------------------------------------------------------
(* compareProviders of the dashboard operations *)

\* most elements a remote response holds while the three providers are compared
MaxCompareResp == 1

\* the number of elements a remote response holds
ResponseSize(rsp) ==
    IF "perTag" \in DOMAIN rsp THEN 0
    ELSE IF ~rsp.ok THEN 0
    ELSE IF "labels" \in DOMAIN rsp THEN Len(rsp.labels)
    ELSE IF "items" \in DOMAIN rsp THEN Len(rsp.items)
    ELSE IF "text" \in DOMAIN rsp THEN Len(split(rsp.text, ","))
    ELSE 0

\* every response a remote call can be answered with, whatever the vocabulary
RemoteResponses ==
    ConnectionResponses \cup GenerationResponses \cup ZeroShotResponses
    \cup CommaTextResponses \cup LineTextResponses \cup ChatClassifyResponses
    \cup ChatNoteResponses

CompareSized == { rsp \in RemoteResponses : ResponseSize(rsp) <= MaxCompareResp }

CompareResponses(client, availableTags) ==
    { rsp \in CompareSized \cup PerTagResponses(availableTags) :
        rsp \in Responses(client, "suggestTags", availableTags) }

\* the (text, tagNames) pairs compareProviders works on
CompareRequests ==
    {<<"zzz qqq", <<"food">>>>,
     <<"Need food for the work trip. Buy shopping bags!", <<"work", "food">>>>}

\* the outcome a trace entry records
OutcomeOf(e) == [kind |-> e.kind, val |-> e.val, net |-> e.net, failed |-> e.failed]

\* how the promise of suggestTagsWithProvider(text, tagNames, p) settled
Compare_settled(p) ==
    Index_suggestTagsWithProvider(
        p, OutcomeOf(trace[CHOOSE i \in DOMAIN trace : trace[i].client = p]))

\* the entry compareProviders builds from a settled promise
Compare_entry(settled) ==
    IF settled.kind = "value"
    THEN [status |-> "fulfilled", tags |-> settled.val.tags, error |-> settled.val.error]
    ELSE [status |-> "rejected", tags |-> <<>>, error |-> settled.val]

\* a join that gives up on the first failure and returns the error object
Compare_join_shortCircuit(hfResult, openaiResult, googleResult) ==
    IF hfResult.failed \/ openaiResult.failed \/ googleResult.failed
    THEN Value([error |-> "Provider failed"], 0, TRUE)
    ELSE Value([huggingface |-> Compare_entry(hfResult),
                openai |-> Compare_entry(openaiResult),
                google |-> Compare_entry(googleResult)], 0, FALSE)

\* the object compareProviders returns after Promise.allSettled
Compare_join(hfResult, openaiResult, googleResult) ==
    Value([huggingface |-> Compare_entry(hfResult),
           openai |-> Compare_entry(openaiResult),
           google |-> Compare_entry(googleResult)], 0, FALSE)

\* compareProviders ends before any provider is called: no user in the context
\* (HttpError 401 is thrown) or the tag lookup fails (an error object is returned)
CompareRefused(authorized) ==
    /\ Idle
    /\ call' = [svc |-> "compare", op |-> "compareProviders", use |-> "none", text |-> "",
                vocab |-> <<>>, pc |-> "done", client |-> "none", fn |-> "none", depth |-> 0]
    /\ trace' = <<>>
    /\ result' = IF authorized THEN Value([error |-> "Tag lookup failed"], 0, TRUE)
                 ELSE Throw("Not authorized", 0)
    /\ UNCHANGED <<apiKey, hfModel, provider, defaultProvider>>

\* compareProviders starts the three suggestTagsWithProvider calls
CompareStart(text, vocab) ==
    /\ Idle
    /\ call' = [svc |-> "compare", op |-> "compareProviders", use |-> "none", text |-> text,
                vocab |-> vocab, pc |-> "await", client |-> "none", fn |-> "suggestTags",
                depth |-> 0]
    /\ trace' = <<>>
    /\ result' = NoResult
    /\ UNCHANGED <<apiKey, hfModel, provider, defaultProvider>>

\* the providers whose call has settled
Settled == { trace[i].client : i \in DOMAIN trace }

\* the call to provider p settles
CompareSettle(p) ==
    /\ call.svc = "compare" /\ call.pc = "await"
    /\ p \notin Settled
    /\ \E rsp \in CompareResponses(p, call.vocab) :
         \E out \in {ClientCall(p, "suggestTags", call.text, call.vocab, rsp)} :
             trace' = Append(trace, Entry(p, "suggestTags", out))
    /\ UNCHANGED <<apiKey, hfModel, provider, defaultProvider, call, result>>

\* all three calls have settled: the await resumes and the object is returned
CompareJoin ==
    /\ call.svc = "compare" /\ call.pc = "await"
    /\ Settled = Providers
    /\ result' = Compare_join(Compare_settled("huggingface"), Compare_settled("openai"),
                              Compare_settled("google"))
    /\ call' = [call EXCEPT !.pc = "done"]
    /\ UNCHANGED <<apiKey, hfModel, provider, defaultProvider, trace>>

Next ==
    \/ \E op \in IndexOps : \E arg \in IndexArgsOf(op), r \in RequestsOf(op) :
         IndexStart(op, arg, r[1], r[2])
    \/ IndexReturn
    \/ \E p \in Providers : SetProvider(p)
    \/ \E op \in RegistryOps : \E arg \in RegistryArgsOf(op), r \in RequestsOf(op) :
         RegistryStart(op, arg, r[1], r[2])
    \/ RegistryProbeReturn
    \/ RegistryTestReturn
    \/ RegistryOpReturn
    \/ \E p \in AIProviders : SetDefaultProvider(p)
    \/ CallerResumes
    \/ \E authorized \in BOOLEAN : CompareRefused(authorized)
    \/ \E r \in CompareRequests : CompareStart(r[1], r[2])
    \/ \E p \in Providers : CompareSettle(p)
    \/ CompareJoin

Spec == Init /\ [][Next]_vars

----------------------------------------------------------------------------
(* Repeated calls against provider stubs: the stub answers the request with *)
(* one fixed response, the selector is left alone, and the same operation   *)
(* of index.ts is called again and again.                                   *)

\* most elements the response of a stub holds
MaxStubResp == 2

\* most calls made against one stub
MaxCalls == 2

PastaText == "I need to buy tomatoes and cheese for making Italian pasta tonight"

ErrandsText == "Buy milk. Call dentist tomorrow. Finish report by Friday."

\* the (operation, text, vocabulary) triples the stubs are called with
StubRequests ==
    {<<"suggestTags", PastaText, <<"groceries", "cooking", "italian", "travel">>>>,
     <<"suggestTags", "zzz qqq", <<"food">>>>,
     <<"suggestTags", "ok", <<"constructor", "food">>>>,
     <<"suggestTags", "Need food for the work trip. Buy shopping bags!",
       <<"travel", "work", "food", "shopping">>>>,
     <<"parseNote", ErrandsText, <<>>>>,
     <<"parseNote", "ok", <<>>>>,
     <<"parseNote", " ok ", <<>>>>,
     <<"parseNote", "Call the dentist. ok", <<>>>>,
     <<"parseNote", "Need food for the work trip. Buy shopping bags!", <<>>>>}

StubSized == { rsp \in RemoteResponses : ResponseSize(rsp) <= MaxStubResp }

StubResponses(client, fn, availableTags) ==
    { rsp \in StubSized \cup PerTagResponses(availableTags) :
        rsp \in Responses(client, fn, availableTags) }

StubInit ==
    /\ apiKey \in [Providers -> BOOLEAN]
    /\ hfModel \in ClassificationModels
    /\ provider \in Providers
    /\ defaultProvider = "google"
    /\ \E r \in StubRequests :
         call = [svc |-> "index", op |-> r[1], use |-> provider, text |-> r[2], vocab |-> r[3],
                 pc |-> "unset", client |-> Index_dispatch(provider), fn |-> Index_clientFn(r[1]),
                 depth |-> 0, rsp |-> Failure]
    /\ trace = <<>>
    /\ result = NoResult

\* the stub is given the response it will answer the request with
StubFix(rsp) ==
    /\ call.pc = "unset"
    /\ call' = [call EXCEPT !.rsp = rsp, !.pc = "ready"]
    /\ UNCHANGED <<apiKey, hfModel, provider, defaultProvider, trace, result>>

\* one more call of the operation: the client function meets the stub's
\* response and the operation returns
StubCall ==
    /\ call.pc = "ready"
    /\ Len(trace) < MaxCalls
    /\ \E out \in {ClientCall(call.client, call.fn, call.text, call.vocab, call.rsp)} :
         /\ trace' = Append(trace, Entry(call.client, call.fn, out))
         /\ result' = Index_return(call, provider, out)
    /\ UNCHANGED <<apiKey, hfModel, provider, defaultProvider, call>>

StubNext ==
    \/ \E rsp \in StubResponses(call.client, call.fn, call.vocab) : StubFix(rsp)
    \/ StubCall

StubSpec == StubInit /\ [][StubNext]_vars

----------------------------------------------------------------------------
(* testTagSuggestion and setAIProvider of the dashboard operations, called  *)
(* by concurrent requests: call[s] is the position of the operation serving *)
(* request s and result[s] is what it returned.                             *)

\* the requests in flight at the same time
Sessions == {"a", "b"}

DashOps == {"testTagSuggestion", "setAIProvider"}

DashNoCall == [op |-> "none", pc |-> "idle", arg |-> "none", use |-> "none",
               client |-> "none", text |-> "", vocab |-> <<>>, out |-> NoResult]

DashInit ==
    /\ apiKey \in [Providers -> BOOLEAN]
    /\ hfModel \in ClassificationModels
    /\ provider \in Providers
    /\ defaultProvider = "google"
    /\ call = [s \in Sessions |-> DashNoCall]
    /\ trace = <<>>
    /\ result = [s \in Sessions |-> NoResult]

\* the object testTagSuggestion returns once aiService.suggestTags has settled;
\* current is aiService.getProvider() at that moment
Dash_testTagSuggestion(suggested, current, text, vocab) ==
    IF suggested.kind = "throw"
    THEN Value([provider |-> current, input |-> text, error |-> suggested.val,
                suggestedTags |-> <<>>], 0, TRUE)
    ELSE Value([provider |-> current, input |-> text, availableTagCount |-> Len(vocab),
                suggestedTags |-> suggested.val], 0, suggested.failed)

\* a setAIProvider that sets the provider whatever the connection test says
Dash_setAIProvider_untested(arg, current, status) ==
    [provider |-> arg,
     response |-> Value([success |-> TRUE, provider |-> arg, previousProvider |-> arg], 0, FALSE)]

\* the selector and the object setAIProvider leaves once the connection test
\* of testConnectionWithProvider(arg) has settled with status; previousProvider
\* is aiService.getProvider() read after aiService.setProvider(arg)
Dash_setAIProvider(arg, current, status) ==
    IF status.kind = "throw"
    THEN [provider |-> current,
          response |-> Value([success |-> FALSE, provider |-> arg, error |-> status.val],
                             0, TRUE)]
    ELSE IF ~status.val.connected
    THEN [provider |-> current,
          response |-> Value([success |-> FALSE, provider |-> arg,
                              error |-> IF status.val.error \in {Absent, ""}
                                        THEN "Provider not available"
                                        ELSE status.val.error], 0, TRUE)]
    ELSE [provider |-> arg,
          response |-> Value([success |-> TRUE, provider |-> arg, previousProvider |-> arg],
                             0, FALSE)]

\* the operation ends before aiService is used: without a user in the context
\* HttpError 401 is thrown; the tag lookup of testTagSuggestion fails and the
\* catch block returns the error object
DashRefused(s, op, authorized) ==
    /\ call[s].pc = "idle"
    /\ authorized => op = "testTagSuggestion"
    /\ call' = [call EXCEPT ![s] = [DashNoCall EXCEPT !.op = op, !.pc = "done"]]
    /\ result' = [result EXCEPT ![s] =
                     IF authorized
                     THEN Value([provider |-> getProvider, input |-> "",
                                 error |-> "Tag lookup failed", suggestedTags |-> <<>>], 0, TRUE)
                     ELSE Throw("Not authorized", 0)]
    /\ UNCHANGED <<apiKey, hfModel, provider, defaultProvider, trace>>

\* testTagSuggestion has read the tag names and calls aiService.suggestTags,
\* which dispatches on the selector and awaits the provider client
TagSuggestionStart(s, text, vocab) ==
    /\ call[s].pc = "idle"
    /\ call' = [call EXCEPT ![s] =
                   [op |-> "testTagSuggestion", pc |-> "await", arg |-> "none",
                    use |-> provider, client |-> Index_dispatch(provider), text |-> text,
                    vocab |-> vocab, out |-> NoResult]]
    /\ UNCHANGED <<apiKey, hfModel, provider, defaultProvider, trace, result>>

\* the provider client settles, aiService.suggestTags returns and
\* testTagSuggestion builds its response
TagSuggestionReturn(s) ==
    /\ call[s].op = "testTagSuggestion" /\ call[s].pc = "await"
    /\ \E out \in { ClientCall(call[s].client, "suggestTags", call[s].text, call[s].vocab, rsp) :
                       rsp \in CompareResponses(call[s].client, call[s].vocab) } :
         /\ call' = [call EXCEPT ![s].pc = "done",
                                 ![s].out = Entry(call[s].client, "suggestTags", out)]
         /\ result' = [result EXCEPT ![s] =
                          Dash_testTagSuggestion(Index_suggestTags(out), getProvider,
                                                 call[s].text, call[s].vocab)]
    /\ UNCHANGED <<apiKey, hfModel, provider, defaultProvider, trace>>

\* setAIProvider calls aiService.testConnectionWithProvider(p) and awaits it
SetAIProviderStart(s, p) ==
    /\ call[s].pc = "idle"
    /\ call' = [call EXCEPT ![s] =
                   [op |-> "setAIProvider", pc |-> "await", arg |-> p, use |-> p,
                    client |-> Index_dispatch(p), text |-> "", vocab |-> <<>>,
                    out |-> NoResult]]
    /\ UNCHANGED <<apiKey, hfModel, provider, defaultProvider, trace, result>>

\* the connection test settles: setAIProvider sets the provider or not and
\* returns
SetAIProviderReturn(s) ==
    /\ call[s].op = "setAIProvider" /\ call[s].pc = "await"
    /\ \E out \in { ClientCall(call[s].client, "testConnection", "", <<>>, rsp) :
                       rsp \in Responses(call[s].client, "testConnection", <<>>) } :
         \E end \in {Dash_setAIProvider(call[s].arg, provider,
                                         Index_testConnectionWithProvider(call[s].arg, out))} :
             /\ call' = [call EXCEPT ![s].pc = "done",
                                     ![s].out = Entry(call[s].client, "testConnection", out)]
             /\ provider' = end.provider
             /\ result' = [result EXCEPT ![s] = end.response]
    /\ UNCHANGED <<apiKey, hfModel, defaultProvider, trace>>

DashNext ==
    \/ \E s \in Sessions, op \in DashOps, authorized \in BOOLEAN : DashRefused(s, op, authorized)
    \/ \E s \in Sessions, r \in CompareRequests : TagSuggestionStart(s, r[1], r[2])
    \/ \E s \in Sessions : TagSuggestionReturn(s)
    \/ \E s \in Sessions, p \in Providers : SetAIProviderStart(s, p)
    \/ \E s \in Sessions : SetAIProviderReturn(s)

DashSpec == DashInit /\ [][DashNext]_vars

----------------------------------------------------------------------------
(* Properties *)

Done == call.pc = "done"

SuggestOps == {"suggestTags", "suggestTagsWithProvider"}

TestOps == {"testConnection", "testConnectionWithProvider", "testProvider"}

\* a tag-suggestion operation of a unified service has returned a value
Suggested == Done /\ call.op \in SuggestOps /\ result.kind = "value"

\* the tags of the unified result
ResultTags == IF call.op = "suggestTagsWithProvider" THEN result.val.tags ELSE result.val

\* the tag sequences the provider clients returned during the call
ClientTags ==
    { trace[i].val : i \in { j \in DOMAIN trace : trace[j].fn = "suggestTags"
                                                   /\ trace[j].kind = "value" } }

NoTagTwice(tags) == \A i, j \in DOMAIN tags : i # j => tags[i] # tags[j]

\* C1: suggestTags of every provider client and of the unified services
\* returns at most 3 tags, whatever the remote calls answer.
C1_AtMostThreeTags ==
    /\ \A tags \in ClientTags : Len(tags) <= 3
    /\ Suggested => Len(ResultTags) <= 3

\* a vocabulary of four tags was cut down to three
C1_ThreeOfFour ==
    /\ Suggested
    /\ Len(call.vocab) > 3
    /\ Len(ResultTags) = 3
    /\ \E tags \in ClientTags : Len(tags) = 3

\* C2: every tag suggestTags returns, from a provider client or a unified
\* service, is a member of the vocabulary it was called with.
C2_TagsWithinVocabulary ==
    /\ \A tags \in ClientTags : \A i \in DOMAIN tags : arrayIncludes(call.vocab, tags[i])
    /\ Suggested => \A i \in DOMAIN ResultTags : arrayIncludes(call.vocab, ResultTags[i])

\* C3: for a vocabulary of distinct names, the sequence suggestTags returns
\* holds no tag twice.
C3_NoDuplicateTags ==
    NoTagTwice(call.vocab) =>
        /\ \A tags \in ClientTags : NoTagTwice(tags)
        /\ Suggested => NoTagTwice(ResultTags)

\* the provider the call selected, and the providers it could fall back to
Selected == Index_dispatch(call.use)

Others == IF call.svc = "registry" THEN {fallbackProvider(call.use)} ELSE Providers \ {Selected}

\* the entry records that the function gave up: a connection test that reports
\* no connection, a throw, an error path that ends in the default result
GaveUp(e) == e.failed /\ (e.fn = "suggestTags" /\ e.kind = "value" => e.val = <<>>)

SelectedFailed == \E i \in DOMAIN trace : trace[i].client = Selected /\ GaveUp(trace[i])

\* the provider holds a credential and every call made to it succeeded
Healthy(p) == apiKey[p] /\ \A i \in DOMAIN trace : trace[i].client = p => ~trace[i].failed

\* when the selected provider failed in `fn` and another provider is healthy, the
\* result is what the healthy provider's `fn` returned, and at most two
\* providers were attempted
FallbackHonoured(fn) ==
    (Done /\ call.op = fn /\ SelectedFailed /\ \E p \in Others : Healthy(p)) =>
        /\ result.kind = "value"
        /\ \E p \in Others :
             /\ Healthy(p)
             /\ \E i \in DOMAIN trace : /\ trace[i].client = p
                                        /\ trace[i].fn = fn
                                        /\ result.val = trace[i].val
        /\ Cardinality({ trace[i].client : i \in DOMAIN trace }) <= 2

\* C4: when the selected provider fails on a tag suggestion and the other
\* provider is healthy, suggestTags of the unified service returns the other
\* provider's suggestion and attempts no third provider.
C4_SuggestTagsFallsBack == FallbackHonoured("suggestTags")

\* C5: one call of suggestTags / parseNote of the registry service awaits at
\* most three client functions, each function of each provider at most once,
\* never enters its recursive catch block, never comes back to a provider it
\* has left, and every function it awaits can settle.
C5_OneHopFallback ==
    (call.svc = "registry" /\ call.op \in {"suggestTags", "parseNote"}) =>
        /\ call.depth = 0
        /\ call.pc \in {"await", "done"}
        /\ Len(trace) <= 3
        /\ \A i, j \in DOMAIN trace :
             i < j => ~(trace[i].client = trace[j].client /\ trace[i].fn = trace[j].fn)
        /\ \A i, j, k \in DOMAIN trace :
             (i < j /\ j < k /\ trace[i].client # trace[j].client) =>
                 trace[k].client # trace[i].client
        /\ call.pc = "await" => Responses(call.client, call.fn, call.vocab) # {}

\* suggestTags fell back from Google to HuggingFace and both gave up
C5_BothProvidersFailed ==
    /\ Done /\ call.svc = "registry" /\ call.op = "suggestTags"
    /\ Len(trace) = 3
    /\ trace[1].client = "google" /\ trace[1].failed
    /\ trace[3].client = "huggingface" /\ trace[3].failed
    /\ result.val = <<>>

\* C6: parseNote of the unified service falls back as suggestTags does: when
\* the selected provider fails and the other provider is healthy, it returns
\* the other provider's items.
C6_ParseNoteFallsBack == FallbackHonoured("parseNote")

\* C7: when the selected provider's generateText fails, generateText of the
\* unified service ends with an error thrown to the caller.
C7_GenerateTextPropagates ==
    (Done /\ call.op = "generateText" /\ \E i \in DOMAIN trace : trace[i].kind = "throw") =>
        result.kind = "throw"

\* a failure shows as connected = false with the error set, and only so
StatusReportsFailure(status, failed) ==
    /\ failed <=> ~status.connected
    /\ status.connected <=> status.error = Absent

\* C8: testConnection of every provider client and testConnection /
\* testConnectionWithProvider / testProvider of the unified services complete
\* with a status value; a failure appears only as connected = false with the
\* error set.
C8_ConnectionTestsNeverThrow ==
    /\ \A i \in DOMAIN trace :
         trace[i].fn = "testConnection" =>
             /\ trace[i].kind = "value"
             /\ StatusReportsFailure(trace[i].val, trace[i].failed)
    /\ (Done /\ call.op \in TestOps) =>
             /\ result.kind = "value"
             /\ StatusReportsFailure(result.val, result.failed)

\* a connection test whose remote call failed ended with a status
C8_RemoteFailureCaptured ==
    /\ Done /\ call.op \in TestOps
    /\ apiKey[call.client]
    /\ trace[1].net = 1
    /\ result.kind = "value"
    /\ ~result.val.connected
    /\ result.val.error = RemoteError

\* C9: suggestTags, suggestTagsWithProvider and parseNote of the unified
\* services complete with a value and raise no error to the caller.
C9_SuggestAndParseNeverThrow ==
    (Done /\ call.op \in SuggestOps \cup {"parseNote"}) => result.kind = "value"

\* an operation whose provider gave up ended with the default value
C9_DegradedToDefault ==
    /\ Done /\ call.op \in SuggestOps \cup {"parseNote"}
    /\ \E i \in DOMAIN trace : trace[i].failed
    /\ result.kind = "value"
    /\ result.failed

\* C10: testConnection of a provider without credential returns connected =
\* false and apiKeyConfigured = false and makes no transport call.
C10_NoCredentialNoCall ==
    /\ \A i \in DOMAIN trace :
         (trace[i].fn = "testConnection" /\ ~apiKey[trace[i].client]) =>
             /\ trace[i].kind = "value"
             /\ ~trace[i].val.connected
             /\ ~trace[i].val.apiKeyConfigured
             /\ trace[i].net = 0
    /\ (Done /\ call.op \in TestOps /\ ~apiKey[call.client]) =>
             /\ result.kind = "value"
             /\ ~result.val.connected
             /\ ~result.val.apiKeyConfigured

\* a connection test of a provider without credential has returned
C10_TestedWithoutCredential ==
    /\ Done /\ call.op \in TestOps
    /\ ~apiKey[call.client]
    /\ Len(trace) = 1
    /\ trace[1].net = 0
    /\ ~result.val.apiKeyConfigured

\* compareProviders has called the providers and returned
Compared == Done /\ call.op = "compareProviders" /\ call.fn = "suggestTags"

\* what the trace records of the call to provider p
EntryOf(p) == trace[CHOOSE i \in DOMAIN trace : trace[i].client = p]

\* C11: once compareProviders has called the providers, its result holds
\* exactly one entry per provider, each provider was called once, and the tags
\* reported for a provider are the tags that provider's own call returned,
\* whatever the other providers did.
C11_CompareReportsEveryProvider ==
    Compared =>
        /\ result.kind = "value"
        /\ DOMAIN result.val = Providers
        /\ Len(trace) = Cardinality(Providers)
        /\ \A p \in Providers :
             /\ \E i \in DOMAIN trace : trace[i].client = p
             /\ EntryOf(p).kind = "value" => result.val[p].tags = EntryOf(p).val

\* one provider gave up and another one's tags are reported all the same
C11_PartialResultKept ==
    /\ Compared
    /\ \E p, q \in Providers :
         /\ GaveUp(EntryOf(p))
         /\ ~EntryOf(q).failed
         /\ EntryOf(q).val # <<>>
         /\ result.val[q].tags = EntryOf(q).val

\* C12: in the result of compareProviders the entry of a provider whose
\* suggestion failed has status 'rejected' and the entries of the others have
\* status 'fulfilled'.
C12_FailedProviderRejected ==
    Compared =>
        \A p \in Providers :
            result.val[p].status = IF GaveUp(EntryOf(p)) THEN "rejected" ELSE "fulfilled"

\* C13: for a provider without credential no operation raises an error to its
\* caller, neither a provider client's function nor a unified operation.
C13_MissingCredentialNeverThrown ==
    /\ \A i \in DOMAIN trace : ~apiKey[trace[i].client] => trace[i].kind = "value"
    /\ (Done /\ call.svc \in {"index", "registry"} /\ ~apiKey[call.client]) =>
           result.kind = "value"

\* C14: setProvider(p) is possible for every provider in every state, makes
\* getProvider() return p and awaits nothing; no other step changes the
\* selector of index.ts, and only setDefaultProvider changes the one of
\* aiService.ts.
C14_SelectorFrame ==
    /\ [](\A p \in Providers : ENABLED SetProvider(p))
    /\ [][/\ \A p \in Providers : SetProvider(p) => getProvider' = p /\ trace' = trace
          /\ getProvider' # getProvider => \E p \in Providers : SetProvider(p)
          /\ getDefaultProvider' # getDefaultProvider =>
                 \E p \in AIProviders : SetDefaultProvider(p)]_vars

\* a call that failed has returned while the selector names another provider,
\* one without credential, chosen while the call was in flight
C14_SwitchedToUnconfigured ==
    /\ Done /\ call.svc = "index"
    /\ result.failed
    /\ getProvider # call.use
    /\ ~apiKey[getProvider]

NoUsableItem(client, rsp) ==
    /\ rsp.ok
    /\ IF client = "openai"
       THEN \/ rsp.content # "array"
            \/ \A k \in DOMAIN rsp.items :
                 ~(rsp.items[k].isString /\ trim(rsp.items[k].s) # "")
       ELSE \A k \in DOMAIN split(rsp.text, "\n") :
                 LET line == trim(split(rsp.text, "\n")[k])
                 IN  ~(Len(line) > 10 /\ HasLetter(line))

\* C16: parseNote of OpenAIService and GoogleAIService never throws, and
\* returns the single-element sequence holding the trimmed text whenever the
\* response is missing, is no array, or holds no usable item.
C16_GenerativeParseFallsBack ==
    (call.op = "parseNote" /\ call.client \in {"openai", "google"}) =>
        \A i \in DOMAIN trace :
            /\ trace[i].kind = "value"
            /\ NoUsableItem(call.client, call.rsp) => trace[i].val = <<trim(call.text)>>

\* C17: parseNote of HuggingFaceService on the three-sentence errands text
\* returns 3 items, each longer than 10 characters and holding a letter.
C17_ErrandsSplitInThree ==
    (call.op = "parseNote" /\ call.client = "huggingface" /\ call.text = ErrandsText) =>
        \A i \in DOMAIN trace :
            (trace[i].kind = "value" /\ ~trace[i].failed) =>
                /\ Len(trace[i].val) = 3
                /\ \A k \in DOMAIN trace[i].val :
                     Len(trace[i].val[k]) > 10 /\ HasLetter(trace[i].val[k])

\* the number of fragments between sentence marks that are longer than 10
\* characters once trimmed and hold a letter
QualifyingFragments(text) ==
    LET fragments == splitRuns(text, {".", "!", "?"})
    IN  Cardinality({ k \in DOMAIN fragments :
                        Len(trim(fragments[k])) > 10 /\ HasLetter(fragments[k]) })

\* C18: parseNote of HuggingFaceService on a text with fewer than two
\* qualifying fragments returns the single-element sequence holding the
\* trimmed text, whether the entity extraction succeeds or fails.
C18_ShortTextPassedThrough ==
    (call.op = "parseNote" /\ call.client = "huggingface"
        /\ QualifyingFragments(call.text) < 2) =>
        \A i \in DOMAIN trace :
            trace[i].kind = "value" /\ trace[i].val = <<trim(call.text)>>

\* a text with one qualifying fragment came back whole after a successful
\* entity extraction
C18_OneFragmentKeptWhole ==
    /\ call.op = "parseNote" /\ call.client = "huggingface"
    /\ call.text = "Call the dentist. ok"
    /\ trace # <<>>
    /\ ~trace[1].failed
    /\ trace[1].val = <<"Call the dentist. ok">>

\* C19: for the pasta text and the vocabulary groceries, cooking, italian,
\* travel, the heuristic path suggests at most 3 tags, all among groceries,
\* cooking and italian, and never travel.
C19_PastaScenario ==
    (call.op = "suggestTags" /\ call.client = "huggingface"
        /\ hfModel = "distilbert-base-uncased" /\ call.text = PastaText) =>
        \A i \in DOMAIN trace :
            /\ trace[i].kind = "value"
            /\ Len(trace[i].val) <= 3
            /\ \A k \in DOMAIN trace[i].val :
                 trace[i].val[k] \in {"groceries", "cooking", "italian"}

\* the scored path ranked italian first and left travel out
C19_ItalianFirst ==
    /\ call.op = "suggestTags" /\ call.client = "huggingface"
    /\ hfModel = "distilbert-base-uncased" /\ call.text = PastaText
    /\ apiKey["huggingface"]
    /\ trace # <<>>
    /\ trace[1].val = <<"italian", "groceries", "cooking">>

\* C20: an operation dispatches on the selector as it is when the call
\* begins; a setProvider while the call is in flight leaves the call as it
\* is and sets the selector to its argument; an operation of index.ts is
\* served by exactly one provider, the one it dispatched to; an operation of
\* aiService.ts starts with the provider its selector named.
C20_LastWriteWins ==
    [][/\ Idle => \A op \in IndexOps : \A r \in RequestsOf(op) :
            IndexStart(op, Absent, r[1], r[2]) => call'.client = provider
       /\ Idle => \A op \in {"suggestTags", "parseNote"} : \A r \in RequestsOf(op) :
            RegistryStart(op, Absent, r[1], r[2]) => call'.client = defaultProvider
       /\ \A p \in Providers :
            SetProvider(p) => provider' = p /\ call' = call /\ trace' = trace
       /\ \A p \in AIProviders :
            SetDefaultProvider(p) => defaultProvider' = p /\ call' = call /\ trace' = trace
       /\ (call.svc = "index" /\ call.pc = "await" /\ call'.pc = "done") =>
            /\ Len(trace') = 1
            /\ trace'[1].client = call.client
            /\ provider' = provider]_vars

\* a call was served by the provider selected when it began although the
\* selector was switched while it was in flight
C20_SwitchedInFlight ==
    /\ Done /\ call.svc = "index"
    /\ call.op \in {"suggestTags", "parseNote", "testConnection"}
    /\ provider # call.use
    /\ Len(trace) = 1
    /\ trace[1].client = call.use

\* a suggestTags call of the HuggingFace client on the heuristic path
Heuristic ==
    /\ call.op = "suggestTags" /\ call.client = "huggingface"
    /\ hfModel = "distilbert-base-uncased"

\* the relevance score of a tag for the text of the call, in tenths
ScoreOf(tag) == calculateTagRelevance(call.text, tag)

\* the positions of the vocabulary whose tag scores above 0.2
AboveThreshold ==
    { j \in DOMAIN call.vocab : /\ ~getContextMatchesThrows(call.vocab[j])
                                 /\ ScoreOf(call.vocab[j]) > 2 }

\* C21: on the heuristic path, with or without credential, whenever a tag
\* scores above 0.2 the result is the tags scoring above 0.2 in descending
\* score order cut to 3: every returned tag scores above 0.2, the scores do
\* not rise along the result, and no tag left out scores higher than a
\* returned one.
C21_RankedByScore ==
    (Heuristic /\ AboveThreshold # {}) =>
        \A i \in DOMAIN trace :
            LET tags == trace[i].val
                left == { j \in AboveThreshold : \A k \in DOMAIN tags : tags[k] # call.vocab[j] }
            IN  /\ trace[i].kind = "value"
                /\ Len(tags) = IF Cardinality(AboveThreshold) < 3
                               THEN Cardinality(AboveThreshold) ELSE 3
                /\ \A k \in DOMAIN tags : \E j \in AboveThreshold : call.vocab[j] = tags[k]
                /\ \A k \in 1..(Len(tags) - 1) : ScoreOf(tags[k]) >= ScoreOf(tags[k + 1])
                /\ \A j \in left : \A k \in DOMAIN tags :
                     ScoreOf(call.vocab[j]) <= ScoreOf(tags[k])

\* the tag is a substring of the lowercased text or contains its first word
SubstringOrPrefix(text, tag) ==
    \/ includes(toLowerCase(text), toLowerCase(tag))
    \/ includes(toLowerCase(tag), split(toLowerCase(text), " ")[1])

\* C22: fallbackKeywordMatching returns a tag only if the tag is a substring
\* of the lowercased text or contains the first word of the text; no
\* relevance score decides.
C22_FallbackWithoutScore ==
    (Heuristic /\ ~apiKey["huggingface"]) =>
        \A i \in DOMAIN trace :
            /\ trace[i].val = fallbackKeywordMatching(call.text, call.vocab)
            /\ \A k \in DOMAIN trace[i].val : SubstringOrPrefix(call.text, trace[i].val[k])

\* C23: with a credential, when every tag is scored and none scores above
\* 0.2, the keyword fallback selects nothing and suggestTags returns the
\* empty sequence.
C23_FallbackAddsNothing ==
    (Heuristic /\ apiKey["huggingface"]
        /\ tagScoresLength(call.vocab) = Len(call.vocab) /\ AboveThreshold = {}) =>
        \A i \in DOMAIN trace : trace[i].kind = "value" /\ trace[i].val = <<>>

\* no tag of a non-empty vocabulary cleared the threshold and the call, made
\* with a credential, has returned the empty sequence
C23_NothingAboveThreshold ==
    /\ Heuristic /\ apiKey["huggingface"]
    /\ call.vocab # <<>> /\ AboveThreshold = {}
    /\ tagScoresLength(call.vocab) = Len(call.vocab)
    /\ trace # <<>>
    /\ trace[1].val = <<>>

\* C24: with a credential, the tags of the heuristic path are the same for
\* every outcome of the per-tag remote calls, one remote call is made per
\* tag, and every tag of the vocabulary is scored.
C24_RemoteCallsIrrelevant ==
    (Heuristic /\ apiKey["huggingface"]) =>
        \A i \in DOMAIN trace :
             /\ \A rsp \in PerTagResponses(call.vocab) :
                  HF_suggestTags(call.text, call.vocab, rsp).val = trace[i].val
             /\ trace[i].net = Len(call.vocab)
             /\ tagScoresLength(call.vocab) = Len(call.vocab)

\* request s is served by setAIProvider, whose connection test settles in this step
SwitchSettles(s) ==
    call[s].op = "setAIProvider" /\ call[s].pc = "await" /\ call'[s].pc = "done"

\* C25: setAIProvider(P) sets the selector to P only when the connection test
\* of P it awaited reported connected; when the test reports no connection
\* it returns success = false and leaves the selector as it is; nothing else
\* changes the selector.
C25_TestThenSet ==
    [][/\ \A s \in Sessions :
            SwitchSettles(s) =>
                IF call'[s].out.kind = "value" /\ call'[s].out.val.connected
                THEN /\ provider' = call[s].arg
                     /\ result'[s].val.success
                     /\ result'[s].val.provider = call[s].arg
                ELSE /\ provider' = provider
                     /\ result'[s].kind = "value"
                     /\ ~result'[s].val.success
       /\ provider' # provider => \E s \in Sessions : SwitchSettles(s)]_vars

\* a switch was refused after its test failed, and the selector still names
\* another provider
C25_SwitchRefused ==
    \E s \in Sessions :
        /\ call[s].op = "setAIProvider" /\ call[s].pc = "done"
        /\ result[s].kind = "value" /\ ~result[s].val.success
        /\ apiKey[call[s].arg]
        /\ provider # call[s].arg

\* C26: when setAIProvider succeeds, previousProvider of its response is the
\* provider that was current before the switch.
C26_PreviousProviderReported ==
    [][\A s \in Sessions :
         (SwitchSettles(s) /\ result'[s].kind = "value" /\ result'[s].val.success) =>
             result'[s].val.previousProvider = provider]_vars

\* C27: the provider field of the response of testTagSuggestion names the
\* provider whose client produced the suggested tags.
C27_ResponseNamesServingProvider ==
    \A s \in Sessions :
        (call[s].op = "testTagSuggestion" /\ call[s].pc = "done"
            /\ call[s].out # NoResult) =>
            result[s].val.provider = call[s].out.client

\* C28: suggestTags and parseNote of aiService.ts end with the result for
\* "no AI providers available" only after the connection tests of both
\* providers reported no connection (a provider without credential can report
\* nothing else and need not have been tested).
C28_GivesUpAfterBothTests ==
    (Done /\ call.svc = "registry" /\ call.op \in {"suggestTags", "parseNote"}
        /\ \A i \in DOMAIN trace : trace[i].fn # call.op) =>
        \A p \in { q \in AIProviders : apiKey[q] } :
            \E i \in DOMAIN trace : /\ trace[i].client = p
                                     /\ trace[i].fn = "testConnection"
                                     /\ trace[i].kind = "value"
                                     /\ ~trace[i].val.connected

\* C29: parseNote of every provider client and of the unified services
\* returns at least one item.
C29_ParseNoteNeverEmpty ==
    /\ \A i \in DOMAIN trace :
         (trace[i].fn = "parseNote" /\ trace[i].kind = "value") => Len(trace[i].val) >= 1
    /\ (Done /\ call.op = "parseNote" /\ result.kind = "value") => Len(result.val) >= 1

\* C30: a function of a provider client without credential makes no
\* transport call.
C30_NoCredentialNoNetwork ==
    \A i \in DOMAIN trace : ~apiKey[trace[i].client] => trace[i].net = 0

====
